---- MODULE Spec2Model ----
(***************************************************************************)
(* A model of the UMKM Food Commerce API (src/main.py, src/schemas.py):    *)
(* the product and order collections of the store, the catalog seeder,     *)
(* the two listing handlers and the create_order handler.                  *)
(*                                                                         *)
(* A handler is cut into steps at its store calls, so that other requests  *)
(* and changes of the catalog interleave exactly where they can in the     *)
(* program: between two calls of the store.                                *)
(*                                                                         *)
(* Numbers.  Prices are Python floats.  The model takes the prices that    *)
(* are whole multiples of 1/8: floats represent them, their products with  *)
(* small integers and their sums exactly, so the float arithmetic of the   *)
(* handler is exact on them, and round(x, 2) meets real ties (0.125).  A   *)
(* price or running subtotal is held as its number of eighths; a rounded   *)
(* subtotal is held as its number of hundredths.                           *)
(***************************************************************************)
EXTENDS Integers, Sequences, FiniteSets, TLC

VARIABLES
    dbConfigured,   \* whether database.db is a store handle (TRUE) or None
    products,       \* the "product" collection: ObjectId -> document
    nextOid,        \* the next ObjectId the store assigns to a product
    orders,         \* the "order" collection, in insertion order
    req,            \* the create_order request in flight, or the last one
    resp,           \* the response to that request
    lst,            \* the listing requests, one per connection
    lresp,          \* the response to each listing request
    listings,       \* listing requests started so far
    adminOps        \* changes made to the catalog from outside so far

vars == <<dbConfigured, products, nextOid, orders, req, resp, lst, lresp,
          listings, adminOps>>

(***************************************************************************)
(* Bounds of the model.                                                    *)
(***************************************************************************)
MaxItems == 2       \* lines of one create_order request
MaxOrders == 2      \* orders persisted
MaxListings == 2    \* listing requests started
MaxAdminOps == 1    \* outside changes of the catalog

None == "None"

Conns == {1, 2}     \* connections that carry listing requests

(***************************************************************************)
(* Identifiers.  A product id of a request is a string: the 24 hex digits  *)
(* of an ObjectId in lower case (what str(ObjectId) gives) or in upper     *)
(* case (which bson.ObjectId also parses), a string that is no ObjectId,   *)
(* or the empty string.                                                    *)
(***************************************************************************)
HexLower(oid) == <<"hex", oid>>
HexUpper(oid) == <<"HEX", oid>>
Malformed == <<"X", 0>>
EmptyStr == <<"", 0>>

RefOids == {1, 2}   \* the ObjectIds requests and outside changes refer to

ProductIds == {HexLower(1), HexUpper(2), Malformed, EmptyStr}

\* bson.ObjectId.is_valid: 24 hex digits of either case
IsValidObjectId(s) == s[1] \in {"hex", "HEX"}

\* bson.ObjectId(s), for a valid s
ObjectId(s) == s[2]

\* str(ObjectId): lower-case hex
Str(oid) == HexLower(oid)

\* The quantities of the lines of a request
Quantities == {-1, 0, 1, 2}

\* float(n) for a whole price n, in eighths
Eighths(n) == 8 * n

(***************************************************************************)
(* round(x, 2) of a float x >= 0 that is e eighths, in hundredths.  e/8 is *)
(* 25e/2 hundredths: exact when e is even, a tie when e is odd, and        *)
(* Python's round() takes a tie to the even neighbour.                     *)
(***************************************************************************)
Round2(e) ==
    LET twice == 25 * e
        lo == twice \div 2
    IN  IF twice % 2 = 0 THEN lo
        ELSE IF lo % 2 = 0 THEN lo ELSE lo + 1

(***************************************************************************)
(* The documents seed_products_if_empty inserts (the fields image, vendor, *)
(* rating and in_stock are carried along unread and are left out).         *)
(***************************************************************************)
sample_products == <<
    [name |-> "Strawberry Bubble Tea",
     description |-> "Refreshing strawberry milk tea with chewy tapioca pearls.",
     price |-> Eighths(18000), category |-> "Drinks",
     tags |-> {"boba", "strawberry", "sweet"}],
    [name |-> "Classic Milk Tea",
     description |-> "Smooth black tea with creamy milk and brown sugar pearls.",
     price |-> Eighths(16000), category |-> "Drinks",
     tags |-> {"boba", "milk tea"}],
    [name |-> "Spicy Chicken Skewers",
     description |-> "Grilled chicken satay with homemade spicy sauce.",
     price |-> Eighths(22000), category |-> "Snacks",
     tags |-> {"spicy", "protein"}],
    [name |-> "Chocolate Banana Crepes",
     description |-> "Soft crepes filled with banana and chocolate drizzle.",
     price |-> Eighths(15000), category |-> "Dessert",
     tags |-> {"dessert", "sweet"}] >>

\* The customer names of a request
Customers == {"Ani"}

\* The prices an outside change gives a product, in eighths: 0.125 and 0.375
AdminPrices == {1, 3}

SeqsUpTo(S, n) == UNION {[1..k -> S] : k \in 0..n}

\* CreateOrderItem: a product id and a quantity, of any sign before validation
LineItems == [product_id : ProductIds, quantity : Quantities]

\* The bodies of POST /api/orders the model submits (customer_phone,
\* customer_address and notes are copied like customer_name, and are None).
Payloads == [customer_name : Customers, items : SeqsUpTo(LineItems, MaxItems)]

\* Faulty variant: the bound of the quantity off by one: ge=0
CreateOrderItemValid_Ge0(line) == line.quantity >= 0

\* CreateOrderItem.quantity: Field(..., ge=1)
CreateOrderItemValid(line) == line.quantity >= 1

\* CreateOrderRequest: every item is a valid CreateOrderItem
CreateOrderRequestValid(payload) ==
    \A k \in 1..Len(payload.items) : CreateOrderItemValid(payload.items[k])

\* OrderItemSchema(product_id=str(prod["_id"]), name=..., price=..., quantity=...)
OrderItemSchema(oid, prod, quantity) ==
    [product_id |-> Str(oid), name |-> prod.name, price |-> prod.price,
     quantity |-> quantity]

\* OrderSchema(...), with subtotal=round(subtotal, 2)
OrderSchema(customer_name, order_items, subtotal) ==
    [customer_name |-> customer_name, customer_phone |-> None,
     customer_address |-> None, items |-> order_items,
     subtotal |-> Round2(subtotal), notes |-> None]

\* database.create_document: one atomic insert of the whole document, which
\* returns the identifier the store assigns
create_document(collection, doc) == Append(collection, doc)

InsertedId(collection) == Len(collection) + 1

IdleReq ==
    [pc |-> "idle", customer_name |-> None, items |-> <<>>, i |-> 0,
     order_items |-> <<>>, subtotal |-> 0, reads |-> 0, writes |-> 0,
     len0 |-> 0]

\* A response: the status, the exception behind it, the detail (the pieces
\* of its text), and the order_id of a success (0: none)
NoResp == [status |-> 0, error |-> None, detail |-> <<>>, order_id |-> 0]

HTTPException(status, detail) ==
    [status |-> status, error |-> "HTTPException", detail |-> detail,
     order_id |-> 0]

\* An exception no handler catches: the framework answers 500
Unhandled(exception) ==
    [status |-> 500, error |-> exception, detail |-> <<"Internal Server Error">>,
     order_id |-> 0]

\* A listing request: count is what count_documents returned (-1: not called)
IdleListing == [pc |-> "idle", kind |-> None, category |-> None, q |-> None,
                count |-> -1]

NoListing == [status |-> 0, error |-> None, raisedIn |-> None, body |-> {}]

\* The store outlives the program: at the start it is a fresh database, or
\* it holds the catalog that an earlier run has seeded.
Init ==
    /\ dbConfigured \in BOOLEAN
    /\ products \in {<<>>, sample_products}
    /\ nextOid = Len(products) + 1
    /\ orders = <<>>
    /\ req = IdleReq
    /\ resp = NoResp
    /\ lst = [c \in Conns |-> IdleListing]
    /\ lresp = [c \in Conns |-> NoListing]
    /\ listings = 0
    /\ adminOps = 0

(***************************************************************************)
(* POST /api/orders.                                                       *)
(***************************************************************************)
OrderUnchanged == UNCHANGED <<dbConfigured, products, nextOid, lst, lresp,
                              listings, adminOps>>

Finish(r, response) ==
    /\ req' = [r EXCEPT !.pc = "done"]
    /\ resp' = response

\* The body fails CreateOrderRequest's validation: the framework answers 422
\* and the handler is not called.
SubmitInvalid(payload, r) ==
    /\ ~CreateOrderRequestValid(payload)
    /\ Finish(r, [status |-> 422, error |-> "RequestValidationError",
                  detail |-> <<"quantity: ensure this value is >= 1">>,
                  order_id |-> 0])

\* if not payload.items: raise HTTPException(400)
SubmitEmpty(payload, r) ==
    /\ CreateOrderRequestValid(payload)
    /\ payload.items = <<>>
    /\ Finish(r, HTTPException(400, <<"No items provided">>))

\* order_items = [], subtotal = 0.0, and the loop is entered
SubmitAccepted(payload, r) ==
    /\ CreateOrderRequestValid(payload)
    /\ payload.items # <<>>
    /\ req' = [r EXCEPT !.pc = "lookup", !.i = 1]
    /\ resp' = NoResp

CreateOrderSubmit(payload) ==
    /\ req.pc = "idle"
    /\ Len(orders) < MaxOrders
    /\ LET r == [IdleReq EXCEPT !.customer_name = payload.customer_name,
                                !.items = payload.items,
                                !.len0 = Len(orders)]
       IN  \/ SubmitInvalid(payload, r)
           \/ SubmitEmpty(payload, r)
           \/ SubmitAccepted(payload, r)
    /\ UNCHANGED orders
    /\ OrderUnchanged

\* prod = None without a call of the store: db is None, or the id is ""
LookupSkipped(line) ==
    /\ ~dbConfigured \/ line.product_id = EmptyStr
    /\ Finish(req, HTTPException(404, <<"Product not found: ", line.product_id>>))

\* bson.ObjectId(line.product_id) raises InvalidId, which nothing catches
LookupInvalidId(line) ==
    /\ dbConfigured /\ line.product_id # EmptyStr
    /\ ~IsValidObjectId(line.product_id)
    /\ Finish(req, Unhandled("InvalidId"))

\* find_one raises (the store fails), which nothing catches
LookupStoreError(line) ==
    /\ dbConfigured /\ line.product_id # EmptyStr
    /\ IsValidObjectId(line.product_id)
    /\ Finish([req EXCEPT !.reads = @ + 1], Unhandled("PyMongoError"))

\* find_one returns None
LookupNotFound(line) ==
    /\ dbConfigured /\ line.product_id # EmptyStr
    /\ IsValidObjectId(line.product_id)
    /\ ObjectId(line.product_id) \notin DOMAIN products
    /\ Finish([req EXCEPT !.reads = @ + 1],
              HTTPException(404, <<"Product not found: ", line.product_id>>))

\* Faulty variant: the new OrderItem is put before the others, not after them
LookupFound_Prepend(line) ==
    /\ dbConfigured /\ line.product_id # EmptyStr
    /\ IsValidObjectId(line.product_id)
    /\ ObjectId(line.product_id) \in DOMAIN products
    /\ LET oid == ObjectId(line.product_id)
           prod == products[oid]
       IN  req' = [req EXCEPT
                     !.reads = @ + 1,
                     !.subtotal = @ + prod.price * line.quantity,
                     !.order_items =
                         <<OrderItemSchema(oid, prod, line.quantity)>> \o @,
                     !.i = @ + 1,
                     !.pc = IF req.i = Len(req.items) THEN "persist" ELSE "lookup"]
    /\ UNCHANGED resp

\* Faulty variant: the price is added to the subtotal without the quantity
LookupFound_NoQuantity(line) ==
    /\ dbConfigured /\ line.product_id # EmptyStr
    /\ IsValidObjectId(line.product_id)
    /\ ObjectId(line.product_id) \in DOMAIN products
    /\ LET oid == ObjectId(line.product_id)
           prod == products[oid]
       IN  req' = [req EXCEPT
                     !.reads = @ + 1,
                     !.subtotal = @ + prod.price,
                     !.order_items =
                         Append(@, OrderItemSchema(oid, prod, line.quantity)),
                     !.i = @ + 1,
                     !.pc = IF req.i = Len(req.items) THEN "persist" ELSE "lookup"]
    /\ UNCHANGED resp

\* find_one returns the product: its name and price are copied into a new
\* OrderItem and price * quantity is added to the subtotal
LookupFound(line) ==
    /\ dbConfigured /\ line.product_id # EmptyStr
    /\ IsValidObjectId(line.product_id)
    /\ ObjectId(line.product_id) \in DOMAIN products
    /\ LET oid == ObjectId(line.product_id)
           prod == products[oid]
       IN  req' = [req EXCEPT
                     !.reads = @ + 1,
                     !.subtotal = @ + prod.price * line.quantity,
                     !.order_items =
                         Append(@, OrderItemSchema(oid, prod, line.quantity)),
                     !.i = @ + 1,
                     !.pc = IF req.i = Len(req.items) THEN "persist" ELSE "lookup"]
    /\ UNCHANGED resp

CreateOrderLookup ==
    /\ req.pc = "lookup"
    /\ LET line == req.items[req.i]
       IN  \/ LookupSkipped(line)
           \/ LookupInvalidId(line)
           \/ LookupStoreError(line)
           \/ LookupNotFound(line)
           \/ LookupFound(line)
    /\ UNCHANGED orders
    /\ OrderUnchanged

\* Faulty variant: the order is written over the collection, not added to it
PersistOk_Overwrite(order_doc) ==
    /\ orders' = <<order_doc>>
    /\ Finish([req EXCEPT !.writes = @ + 1],
              [status |-> 200, error |-> None, detail |-> <<"Order created">>,
               order_id |-> 1])

\* create_document returns: the order is in the store
PersistOk(order_doc) ==
    /\ orders' = create_document(orders, order_doc)
    /\ Finish([req EXCEPT !.writes = @ + 1],
              [status |-> 200, error |-> None, detail |-> <<"Order created">>,
               order_id |-> InsertedId(orders)])

\* Faulty variant: the handler calls create_document again when it raises
PersistFailed_Retry(order_doc) ==
    /\ orders' = create_document(orders, order_doc)
    /\ Finish([req EXCEPT !.writes = @ + 2],
              [status |-> 200, error |-> None, detail |-> <<"Order created">>,
               order_id |-> InsertedId(orders)])

\* create_document raises: except Exception -> HTTPException(500)
PersistFailed(order_doc) ==
    /\ UNCHANGED orders
    /\ Finish([req EXCEPT !.writes = @ + 1],
              HTTPException(500, <<"Failed to create order: ", "PyMongoError">>))

CreateOrderPersist ==
    /\ req.pc = "persist"
    /\ LET order_doc ==
               OrderSchema(req.customer_name, req.order_items, req.subtotal)
       IN  \/ PersistOk(order_doc)
           \/ PersistFailed(order_doc)
    /\ OrderUnchanged

\* The response has gone out: the connection takes the next request
CreateOrderReturn ==
    /\ req.pc = "done"
    /\ req' = IdleReq
    /\ resp' = NoResp
    /\ UNCHANGED orders
    /\ OrderUnchanged

(***************************************************************************)
(* GET /api/products and GET /api/categories, with the seeder they call.   *)
(***************************************************************************)
\* The listing requests the model sends: the handler, and for list_products
\* its parameters category and q (None: not given)
ListingRequests ==
    {[kind |-> "products", category |-> None, q |-> None],
     [kind |-> "products", category |-> "Drinks", q |-> "strawberry"],
     [kind |-> "categories", category |-> None, q |-> None]}

\* The words of a string of the catalog, as written
Words(s) ==
    CASE s = "Strawberry Bubble Tea" -> {"Strawberry", "Bubble", "Tea"}
      [] s = "Classic Milk Tea" -> {"Classic", "Milk", "Tea"}
      [] s = "Spicy Chicken Skewers" -> {"Spicy", "Chicken", "Skewers"}
      [] s = "Chocolate Banana Crepes" -> {"Chocolate", "Banana", "Crepes"}
      [] s = "Es Teh Manis" -> {"Es", "Teh", "Manis"}
      [] s = "Refreshing strawberry milk tea with chewy tapioca pearls." ->
            {"Refreshing", "strawberry", "milk", "tea", "with", "chewy",
             "tapioca", "pearls"}
      [] s = "Smooth black tea with creamy milk and brown sugar pearls." ->
            {"Smooth", "black", "tea", "with", "creamy", "milk", "and",
             "brown", "sugar", "pearls"}
      [] s = "Grilled chicken satay with homemade spicy sauce." ->
            {"Grilled", "chicken", "satay", "with", "homemade", "spicy",
             "sauce"}
      [] s = "Soft crepes filled with banana and chocolate drizzle." ->
            {"Soft", "crepes", "filled", "with", "banana", "and",
             "chocolate", "drizzle"}
      [] s = "milk tea" -> {"milk", "tea"}
      [] OTHER -> {s}

\* str.lower() on the words that hold an upper-case letter
Lower(w) ==
    CASE w = "Strawberry" -> "strawberry" [] w = "Bubble" -> "bubble"
      [] w = "Tea" -> "tea" [] w = "Classic" -> "classic"
      [] w = "Milk" -> "milk" [] w = "Spicy" -> "spicy"
      [] w = "Chicken" -> "chicken" [] w = "Skewers" -> "skewers"
      [] w = "Chocolate" -> "chocolate" [] w = "Banana" -> "banana"
      [] w = "Crepes" -> "crepes" [] w = "Es" -> "es" [] w = "Teh" -> "teh"
      [] w = "Manis" -> "manis" [] w = "Refreshing" -> "refreshing"
      [] w = "Smooth" -> "smooth" [] w = "Grilled" -> "grilled"
      [] w = "Soft" -> "soft"
      [] OTHER -> w

\* {"$regex": q, "$options": "i"} on a string, for a q of one word: the
\* string holds q whatever the case of its letters
RegexI(q, s) == \E w \in Words(s) : Lower(w) = Lower(q)

\* filter_dict of list_products; a tags array matches when one tag does
Matches(doc, category, q) ==
    /\ category # None => doc.category = category
    /\ q # None =>
          \/ RegexI(q, doc.name)
          \/ RegexI(q, doc.description)
          \/ \E t \in doc.tags : RegexI(q, t)

\* it["_id"] = str(it["_id"])
Serialized(oid) ==
    [_id |-> Str(oid), name |-> products[oid].name,
     price |-> products[oid].price, category |-> products[oid].category]

\* count_documents({})
CountDocuments == Cardinality(DOMAIN products)

\* insert_many(docs): the store gives each document the next ObjectId
InsertMany(docs) ==
    [oid \in DOMAIN products \cup (nextOid..(nextOid + Len(docs) - 1)) |->
        IF oid \in DOMAIN products THEN products[oid]
        ELSE docs[oid - nextOid + 1]]

ListingUnchanged == UNCHANGED <<dbConfigured, orders, req, resp, adminOps>>

ListingDone(c, l, response) ==
    /\ lst' = [lst EXCEPT ![c] = [l EXCEPT !.pc = "done"]]
    /\ lresp' = [lresp EXCEPT ![c] = response]

ListingCrash(c, where) ==
    ListingDone(c, lst[c], [status |-> 500, error |-> "PyMongoError",
                            raisedIn |-> where, body |-> {}])

\* if db is None: the static answer of either handler
ListFallback(c, l) ==
    /\ ~dbConfigured
    /\ ListingDone(c, l,
          [status |-> 200, error |-> None, raisedIn |-> None,
           body |-> IF l.kind = "products"
                    THEN {[name |-> "Sample Bubble Tea",
                           price |-> Eighths(15000), category |-> "Drinks"]}
                    ELSE {"Drinks", "Snacks", "Dessert"}])

\* otherwise seed_products_if_empty() is called
ListEnter(c, l) ==
    /\ dbConfigured
    /\ lst' = [lst EXCEPT ![c] = [l EXCEPT !.pc = "seed_count"]]
    /\ lresp' = [lresp EXCEPT ![c] = NoListing]

ListStart(c, request) ==
    /\ lst[c].pc = "idle"
    /\ listings < MaxListings
    /\ listings' = listings + 1
    /\ LET l == [IdleListing EXCEPT !.kind = request.kind,
                                    !.category = request.category,
                                    !.q = request.q]
       IN  \/ ListFallback(c, l)
           \/ ListEnter(c, l)
    /\ UNCHANGED <<products, nextOid>>
    /\ ListingUnchanged

\* Faulty variant: the seeder goes on to insert whatever the count is
SeedCounted_NoGuard(c) ==
    /\ lst' = [lst EXCEPT ![c] =
                 [@ EXCEPT !.count = CountDocuments, !.pc = "seed_insert"]]
    /\ UNCHANGED lresp

\* count = db["product"].count_documents({}); if count > 0: return
SeedCounted(c) ==
    /\ lst' = [lst EXCEPT ![c] =
                 [@ EXCEPT !.count = CountDocuments,
                           !.pc = IF CountDocuments > 0 THEN "query"
                                  ELSE "seed_insert"]]
    /\ UNCHANGED lresp

SeedCount(c) ==
    /\ lst[c].pc = "seed_count"
    /\ \/ SeedCounted(c)
       \/ ListingCrash(c, "seed_products_if_empty")
    /\ UNCHANGED <<products, nextOid, listings>>
    /\ ListingUnchanged

\* Faulty variant: the insert looks at the store again and skips a catalog that is
\* no longer empty
SeedInserted_Recheck(c) ==
    /\ products' = IF CountDocuments = 0 THEN InsertMany(sample_products)
                   ELSE products
    /\ nextOid' = IF CountDocuments = 0 THEN nextOid + Len(sample_products)
                  ELSE nextOid
    /\ lst' = [lst EXCEPT ![c] = [@ EXCEPT !.pc = "query"]]
    /\ UNCHANGED lresp

\* db["product"].insert_many(sample_products)
SeedInserted(c) ==
    /\ products' = InsertMany(sample_products)
    /\ nextOid' = nextOid + Len(sample_products)
    /\ lst' = [lst EXCEPT ![c] = [@ EXCEPT !.pc = "query"]]
    /\ UNCHANGED lresp

SeedInsertFailed(c) ==
    /\ ListingCrash(c, "seed_products_if_empty")
    /\ UNCHANGED <<products, nextOid>>

SeedInsert(c) ==
    /\ lst[c].pc = "seed_insert"
    /\ \/ SeedInserted(c)
       \/ SeedInsertFailed(c)
    /\ UNCHANGED listings
    /\ ListingUnchanged

\* list(db["product"].find(filter_dict)), or db["product"].distinct("category")
QueryAnswered(c) ==
    ListingDone(c, lst[c],
       [status |-> 200, error |-> None, raisedIn |-> None,
        body |-> IF lst[c].kind = "products"
                 THEN {Serialized(oid) : oid \in
                          {o \in DOMAIN products :
                              Matches(products[o], lst[c].category, lst[c].q)}}
                 ELSE {products[o].category : o \in DOMAIN products}])

ListQuery(c) ==
    /\ lst[c].pc = "query"
    /\ \/ QueryAnswered(c)
       \/ ListingCrash(c, lst[c].kind)
    /\ UNCHANGED <<products, nextOid, listings>>
    /\ ListingUnchanged

\* The response has gone out: the connection takes the next request
ListReturn(c) ==
    /\ lst[c].pc = "done"
    /\ lst' = [lst EXCEPT ![c] = IdleListing]
    /\ lresp' = [lresp EXCEPT ![c] = NoListing]
    /\ UNCHANGED <<products, nextOid, listings>>
    /\ ListingUnchanged

(***************************************************************************)
(* Changes of the catalog from outside the program: a product's price or   *)
(* name changes, a product is deleted.                                     *)
(***************************************************************************)
AdminUnchanged == UNCHANGED <<dbConfigured, nextOid, orders, req, resp, lst,
                              lresp, listings>>

AdminSetPrice(oid, price) ==
    /\ adminOps < MaxAdminOps
    /\ oid \in DOMAIN products
    /\ products[oid].price # price
    /\ products' = [products EXCEPT ![oid].price = price]
    /\ adminOps' = adminOps + 1
    /\ AdminUnchanged

AdminRename(oid) ==
    /\ adminOps < MaxAdminOps
    /\ oid \in DOMAIN products
    /\ products[oid].name # "Es Teh Manis"
    /\ products' = [products EXCEPT ![oid].name = "Es Teh Manis"]
    /\ adminOps' = adminOps + 1
    /\ AdminUnchanged

AdminDelete(oid) ==
    /\ adminOps < MaxAdminOps
    /\ oid \in DOMAIN products
    /\ products' = [o \in DOMAIN products \ {oid} |-> products[o]]
    /\ adminOps' = adminOps + 1
    /\ AdminUnchanged

OrderNext(payloads) ==
    \/ \E payload \in payloads : CreateOrderSubmit(payload)
    \/ CreateOrderLookup
    \/ CreateOrderPersist
    \/ CreateOrderReturn

ListNext(c) ==
    \/ \E request \in ListingRequests : ListStart(c, request)
    \/ SeedCount(c)
    \/ SeedInsert(c)
    \/ ListQuery(c)
    \/ ListReturn(c)

AdminNext ==
    \/ \E oid \in RefOids, price \in AdminPrices : AdminSetPrice(oid, price)
    \/ \E oid \in RefOids : AdminRename(oid)
    \/ \E oid \in RefOids : AdminDelete(oid)

\* The bodies of one line at most
ShortPayloads == {payload \in Payloads : Len(payload.items) <= 1}

\* The whole program, with orders of one line
Next == OrderNext(ShortPayloads) \/ AdminNext \/ \E c \in Conns : ListNext(c)

Spec == Init /\ [][Next]_vars

\* The listing requests and their seeder, while the catalog changes
NextSeed == AdminNext \/ \E c \in Conns : ListNext(c)

SpecSeed == Init /\ [][NextSeed]_vars

\* No other listing request is between its first store call and its return
Alone(c) == \A d \in Conns \ {c} : lst[d].pc = "idle"

InitFresh == Init /\ products = <<>>

NextSeq ==
    \/ AdminNext
    \/ \E c \in Conns :
          \/ \E request \in ListingRequests : Alone(c) /\ ListStart(c, request)
          \/ Alone(c) /\ SeedCount(c)
          \/ Alone(c) /\ SeedInsert(c)
          \/ Alone(c) /\ ListQuery(c)
          \/ Alone(c) /\ ListReturn(c)

\* The listing requests on a fresh database when they do not overlap
SpecSeq == InitFresh /\ [][NextSeq]_vars

\* The order workflow, with orders of every length, while the catalog changes
NextOrders == OrderNext(Payloads) \/ AdminNext

SpecOrders == Init /\ [][NextOrders]_vars

(***************************************************************************)
(* The claims.                                                             *)
(***************************************************************************)
Range(f) == {f[x] : x \in DOMAIN f}

\* The line the loop of create_order is at
CurrentLine == req.items[req.i]

\* The loop of create_order has ended at a line, with a response
EndedAtLine == req.pc = "done" /\ req.i \in 1..Len(req.items)

\* findById: the id is an ObjectId of a record the store holds
Resolves(product_id) ==
    /\ dbConfigured
    /\ IsValidObjectId(product_id)
    /\ ObjectId(product_id) \in DOMAIN products

NotFound404(product_id) ==
    HTTPException(404, <<"Product not found: ", product_id>>)

\* C1: when the loop of create_order comes to a line whose product id does
\* not resolve in the product store (and the store answers), the request
\* ends with 404 "Product not found: <that id>", create_document has not
\* been called and the order collection is what it was.
C1_UnresolvedIsNotFound ==
    [][(/\ req.pc = "lookup"
        /\ ~Resolves(CurrentLine.product_id)
        /\ req'.pc = "done"
        /\ resp'.error # "PyMongoError")
       => (/\ resp' = NotFound404(CurrentLine.product_id)
           /\ req'.writes = 0
           /\ orders' = orders)]_vars

\* C5: a request whose loop has ended at a line with a malformed product id
\* has the 404 response that names the id, and has persisted nothing.
C5_MalformedIsNotFound ==
    (EndedAtLine /\ req.items[req.i].product_id = Malformed)
        => (/\ resp = NotFound404(Malformed)
            /\ Len(orders) = req.len0)

\* The order create_order builds from the lines of a request, given what
\* the order collection received
LinesMatch(items, order_items) ==
    /\ Len(order_items) = Len(items)
    /\ \A k \in 1..Len(items) :
          /\ order_items[k].quantity = items[k].quantity
          /\ order_items[k].product_id = Str(ObjectId(items[k].product_id))

\* C2: a step that changes the order collection is the last step of a
\* request that succeeds and adds exactly one order, whose items are one per
\* line of the request, in the order of the lines, each with the quantity of
\* its line and the product's identifier; and each step of the loop adds to
\* the items exactly one OrderItem, at the end, with the identifier, name and
\* price the product has in the store at that step.
C2_OneItemPerLine ==
    [][/\ (orders' # orders \/ (resp.status # 200 /\ resp'.status = 200)) =>
            /\ req.pc = "persist" /\ resp'.status = 200
            /\ Len(orders') = Len(orders) + 1
            /\ SubSeq(orders', 1, Len(orders)) = orders
            /\ orders'[Len(orders')].items = req.order_items
            /\ LinesMatch(req.items, req.order_items)
       /\ (req.pc = "lookup" /\ req'.pc \in {"lookup", "persist"}
              /\ req' # req) =>
            LET oid == ObjectId(CurrentLine.product_id)
            IN  /\ Len(req.order_items) = req.i - 1
                /\ req'.order_items =
                      Append(req.order_items,
                             [product_id |-> Str(oid),
                              name |-> products[oid].name,
                              price |-> products[oid].price,
                              quantity |-> CurrentLine.quantity])]_vars

\* C2 witness: a request of two lines for the same product, written in upper
\* case, has succeeded; its order has two items under the product's own
\* identifier, with the two prices the product had at the two lookups.
C2_Witness ==
    /\ req.pc = "done" /\ resp.status = 200
    /\ Len(req.items) = 2
    /\ req.items[1].product_id = HexUpper(2)
    /\ req.items[2].product_id = HexUpper(2)
    /\ LET o == orders[Len(orders)]
       IN  /\ Len(o.items) = 2
           /\ o.items[1].product_id = HexLower(2)
           /\ o.items[2].product_id = HexLower(2)
           /\ o.items[1].price # o.items[2].price
           /\ o.items[1].quantity # o.items[2].quantity

RECURSIVE SumItems(_)
\* sum of item.price * item.quantity over the items, in eighths
SumItems(items) ==
    IF items = <<>> THEN 0
    ELSE items[1].price * items[1].quantity + SumItems(Tail(items))

\* h hundredths is e eighths rounded to 2 decimal places: no hundredth is
\* nearer to e/8 than h (|100 e/8 - h| <= 1/2)
IsRounded2(e, h) == 2 * h - 25 * e \in {-1, 0, 1}

\* C3: the subtotal of every persisted order is the sum of price * quantity
\* over its items, rounded to 2 decimal places, and is not negative.
C3_SubtotalIsRoundedSum ==
    \A k \in 1..Len(orders) :
        /\ IsRounded2(SumItems(orders[k].items), orders[k].subtotal)
        /\ orders[k].subtotal >= 0

\* C3 witness: an order of two items with quantities 1 and 2 whose sum is
\* not a whole number of hundredths, so that the rounding has acted.
C3_Witness ==
    \E k \in 1..Len(orders) :
        /\ Len(orders[k].items) = 2
        /\ orders[k].items[1].quantity = 2
        /\ orders[k].items[2].quantity = 1
        /\ SumItems(orders[k].items) % 2 = 1
        /\ orders[k].subtotal > 0

\* C4: no step removes or changes a persisted order.
C4_OrdersAppendOnly ==
    [][/\ Len(orders') >= Len(orders)
       /\ \A k \in 1..Len(orders) : orders'[k] = orders[k]]_vars

\* C4 witness: a listing request of this run has seeded the store, two
\* orders are persisted, and an item of the first has a price or a name that
\* its product no longer has, or its product is deleted.
C4_Witness ==
    /\ Len(orders) = 2
    /\ \E c \in Conns :
          lst[c].pc = "done" /\ lst[c].count = 0 /\ lresp[c].status = 200
    /\ \E item \in Range(orders[1].items) :
          LET oid == ObjectId(item.product_id)
          IN  \/ oid \notin DOMAIN products
              \/ products[oid].price # item.price
              \/ products[oid].name # item.name

\* The catalog is one copy of the baseline set
OneBaseline == products = sample_products

\* The call of the seeder a listing request makes has returned
SeederReturned(c) ==
    \/ lst[c].pc = "query"
    \/ lst[c].pc = "done" /\ lst[c].count >= 0
          /\ lresp[c].raisedIn # "seed_products_if_empty"

\* C6: when the calls of the seeder do not overlap and start from an empty
\* store (and nothing else touches the catalog), the catalog is empty or one
\* copy of the baseline set, the store has assigned no other identifier, and
\* once a call has returned the catalog is one copy of the baseline set.
C6_SeedIdempotent ==
    adminOps = 0 =>
        /\ products = <<>> \/ OneBaseline
        /\ nextOid = Len(products) + 1
        /\ \A c \in Conns : SeederReturned(c) => OneBaseline

\* C6 witness: the second call finds the four records the first has
\* inserted, and has returned.
C6_Witness ==
    /\ adminOps = 0 /\ listings = 2
    /\ \E c \in Conns :
          /\ lst[c].pc = "done" /\ lresp[c].status = 200
          /\ lst[c].count = Len(sample_products)
    /\ OneBaseline

\* InvalidRequest: no item, or an item whose quantity is 0 or negative
InvalidRequest(items) ==
    items = <<>> \/ \E k \in 1..Len(items) : items[k].quantity <= 0

\* C7: an InvalidRequest ends with a 4xx response with no read of the
\* product store, no write of the order store and nothing persisted; it is
\* the only request that 400 or 422 answers, and the only one the loop is
\* not entered for; and every persisted order has at least one item and
\* quantities of 1 or more.
C7_InvalidRequestRejected ==
    /\ (req.pc = "done" /\ InvalidRequest(req.items)) =>
          /\ resp.status \in 400..499
          /\ req.reads = 0 /\ req.writes = 0
          /\ Len(orders) = req.len0
    /\ (req.pc = "done" /\ resp.status \in {400, 422}) =>
          InvalidRequest(req.items)
    /\ req.pc \in {"lookup", "persist"} => ~InvalidRequest(req.items)
    /\ \A k \in 1..Len(orders) :
          /\ orders[k].items # <<>>
          /\ \A item \in Range(orders[k].items) : item.quantity >= 1

\* C7 witness: a request with a quantity of 0 has been answered 422, after
\* an order with a quantity of 1 was persisted.
C7_Witness ==
    /\ req.pc = "done" /\ resp.status = 422
    /\ \E k \in 1..Len(req.items) : req.items[k].quantity = 0
    /\ \A k \in 1..Len(req.items) : req.items[k].quantity >= 0
    /\ \E k \in 1..Len(orders) :
          \E item \in Range(orders[k].items) : item.quantity = 1

\* The loop of create_order has ended after the last line
LoopPassed == req.pc = "done" /\ req.items # <<>> /\ req.i > Len(req.items)

WriteFailed500 ==
    HTTPException(500, <<"Failed to create order: ", "PyMongoError">>)

\* C8: a request that has validated all its lines has called create_document
\* exactly once; when the call failed (the order collection is what it was)
\* the response is the 500 that carries the cause, and nothing is persisted;
\* and that 500 is the response of no other request.
C8_WriteFailureIs500 ==
    /\ LoopPassed =>
          /\ req.writes = 1
          /\ Len(orders) = req.len0 => resp = WriteFailed500
          /\ Len(orders) # req.len0 =>
                resp.status = 200 /\ Len(orders) = req.len0 + 1
    /\ resp = WriteFailed500 => LoopPassed /\ Len(orders) = req.len0
    /\ req.writes <= 1

\* C8 witness: the write of a validated order of two lines has failed.
C8_Witness ==
    /\ LoopPassed /\ Len(req.items) = 2
    /\ resp = WriteFailed500
    /\ Len(orders) = req.len0

\* C9: no listing request is answered with a failure that was raised in the
\* seeder.
C9_SeedErrorSwallowed ==
    \A c \in Conns :
        lresp[c].raisedIn = "seed_products_if_empty" => lresp[c].status < 500

\* The copies of the baseline set the catalog holds, when it holds nothing
\* else: n documents for each document of the baseline set
Copies(n) ==
    /\ Cardinality(DOMAIN products) = n * Len(sample_products)
    /\ \A k \in 1..Len(sample_products) :
          Cardinality({oid \in DOMAIN products :
                          products[oid] = sample_products[k]}) = n

\* C10: when two listing requests, the only ones so far, have both come
\* back from the seeder (and nothing else touched the catalog): if both
\* counted zero products, the catalog holds two copies of the baseline set;
\* if one counted the products the other had inserted, it holds one.
C10_DoubleSeed ==
    LET zero == {c \in Conns : lst[c].count = 0}
    IN  (/\ adminOps = 0 /\ dbConfigured
         /\ listings = Cardinality(Conns)
         /\ \A c \in Conns : SeederReturned(c))
        => /\ Cardinality(zero) = 2 => Copies(2)
           /\ Cardinality(zero) < 2 => Copies(1)

\* C10 witness: both requests counted zero and both inserted.
C10_Witness ==
    /\ adminOps = 0 /\ dbConfigured
    /\ listings = Cardinality(Conns)
    /\ \A c \in Conns : SeederReturned(c) /\ lst[c].count = 0
    /\ Copies(2)

====
